---- MODULE Spec2Model ----
(***************************************************************************)
(* Model of the MySQL workflow node: the query executor                    *)
(* (src/nodes/mysql.node.js, execute), the table lister                    *)
(* (loadOptions.getTables) and the credential tester                       *)
(* (src/credentials/mysqlDb.credentials.js, test).                         *)
(*                                                                         *)
(* The database driver (mysql2/promise) is an external collaborator: every *)
(* call into it (pool.execute, pool.end, createConnection,                 *)
(* connection.execute, connection.end) resolves or rejects                 *)
(* nondeterministically.                                                   *)
(*                                                                         *)
(* Text is modelled as a sequence of tokens (strings); the back-tick is a  *)
(* token of its own, so that quoting is visible in a statement.  A JSON    *)
(* object (an item's json) is a set of <<key, value>> pairs with at most   *)
(* one pair per key.                                                       *)
(***************************************************************************)
EXTENDS Naturals, Sequences, FiniteSets, TLC

\* ------------------------------------------------------------- bounds
\* Largest input batch that is enumerated.
MaxItems == 2

\* ---------------------------------------------------- program constants
DefaultPort == 3306

\* ------------------------------------------------------- JS primitives
\* JS truthiness of a text (a token sequence): the empty text is falsy.
Truthy(toks) == Len(toks) > 0

\* a || b on texts
OrElse(a, b) == IF Truthy(a) THEN a ELSE b

\* JS truthiness of a credential field (a string; "" stands for an absent
\* or empty field).
Present(s) == s # ""

\* Mutant of Merge: the spread of the base object is forgotten.
MergeDropsBase(base, more) == more

\* {...base, ...more}: keys of more override those of base.
Merge(base, more) ==
  {p \in base : \A q \in more : q[1] # p[1]} \cup more

Get(obj, k) == (CHOOSE p \in obj : p[1] = k)[2]

\* Array.prototype.join over token sequences: the parts, with the tokens of
\* sep between consecutive parts.
RECURSIVE JoinTokens(_, _)
JoinTokens(parts, sep) ==
  IF Len(parts) = 0 THEN <<>>
  ELSE IF Len(parts) = 1 THEN parts[1]
  ELSE parts[1] \o sep \o JoinTokens(Tail(parts), sep)

\* The tokens of a text run together into one string.
RECURSIVE Render(_)
Render(toks) ==
  IF Len(toks) = 0 THEN "" ELSE toks[1] \o Render(Tail(toks))

\* ------------------------------------------- parameter marshaling
\* String.prototype.split(","): the pieces between the "," tokens (a text
\* without "," is one piece; n commas give n + 1 pieces).
RECURSIVE SplitComma(_, _)
SplitComma(toks, cur) ==
  IF Len(toks) = 0 THEN <<cur>>
  ELSE IF toks[1] = "," THEN <<cur>> \o SplitComma(Tail(toks), <<>>)
  ELSE SplitComma(Tail(toks), Append(cur, toks[1]))

RECURSIVE TrimLeft(_)
TrimLeft(toks) ==
  IF Len(toks) > 0 /\ toks[1] = " " THEN TrimLeft(Tail(toks)) ELSE toks

RECURSIVE TrimRight(_)
TrimRight(toks) ==
  IF Len(toks) > 0 /\ toks[Len(toks)] = " "
  THEN TrimRight(SubSeq(toks, 1, Len(toks) - 1))
  ELSE toks

\* String.prototype.trim
Trim(toks) == TrimRight(TrimLeft(toks))

\* A value handed to the driver as a positional parameter.
StrParam(toks) == [type |-> "string", text |-> Render(toks)]

NumParam(n) == [type |-> "number", text |-> ToString(n)]

\* Mutant of MarshalParams: the pieces are not trimmed.
MarshalParamsNoTrim(paramsStr) ==
  LET pieces == SplitComma(paramsStr, <<>>)
  IN  [i \in 1..Len(pieces) |-> StrParam(pieces[i])]

\* paramsStr.split(",").map((p) => p.trim())
MarshalParams(paramsStr) ==
  LET pieces == SplitComma(paramsStr, <<>>)
  IN  [i \in 1..Len(pieces) |-> StrParam(Trim(pieces[i]))]

\* paramsStr ? paramsStr.split(",").map(...) : []
ParamsOrEmpty(paramsStr) ==
  IF Truthy(paramsStr) THEN MarshalParams(paramsStr) ELSE <<>>

\* ------------------------------------------------------------ JSON data
\* The data field is a JSON text: a sequence of lexical tokens
\* [t |-> "{" | "}" | ":" | "," | "str" | "num", v |-> text].
Tok(t) == [t |-> t, v |-> ""]

JStr(v) == [t |-> "str", v |-> v]

JNum(v) == [t |-> "num", v |-> v]

\* members of an object: key ":" value ("," key ":" value)*
RECURSIVE MembersOk(_)
MembersOk(m) ==
  /\ Len(m) >= 3
  /\ m[1].t = "str"
  /\ m[2].t = ":"
  /\ m[3].t \in {"str", "num"}
  /\ \/ Len(m) = 3
     \/ Len(m) > 4 /\ m[4].t = "," /\ MembersOk(SubSeq(m, 5, Len(m)))

RECURSIVE MemberPairs(_)
MemberPairs(m) ==
  IF Len(m) < 3 THEN <<>>
  ELSE <<[key |-> m[1].v,
          value |-> [type |-> IF m[3].t = "num" THEN "number" ELSE "string",
                     text |-> m[3].v]]>>
       \o (IF Len(m) > 4 THEN MemberPairs(SubSeq(m, 5, Len(m))) ELSE <<>>)

\* JSON.parse(dataStr) for object texts: the members in source order, or a
\* SyntaxError.
JSONParse(toks) ==
  LET n == Len(toks)
      inner == SubSeq(toks, 2, n - 1)
      ok == /\ n >= 2
            /\ toks[1].t = "{"
            /\ toks[n].t = "}"
            /\ (Len(inner) = 0 \/ MembersOk(inner))
  IN  IF ok THEN [ok |-> TRUE, pairs |-> MemberPairs(inner)]
      ELSE [ok |-> FALSE, pairs |-> <<>>]

\* Object.keys(data) / Object.values(data)
ObjectKeys(pairs) == [i \in 1..Len(pairs) |-> pairs[i].key]

ObjectValues(pairs) == [i \in 1..Len(pairs) |-> pairs[i].value]

\* --------------------------------------------------------------- errors
Err(message, code) == [message |-> message, code |-> code]

NoError == Err("", "")

ErrCredentialsRequired ==
  Err("MySQL credentials are required. Please select credentials in the Authentication field.",
      "undefined")

\* new Error(`Failed to get credentials: ${error.message}`)
ErrFailedCredentials(e) ==
  Err("Failed to get credentials: " \o e.message, "undefined")

ErrWhereUpdate ==
  Err("WHERE clause is required for UPDATE operation to prevent accidental updates",
      "undefined")

ErrWhereDelete ==
  Err("WHERE clause is required for DELETE operation to prevent accidental deletion",
      "undefined")

\* new Error(`Invalid JSON data: ${e.message}`)
ErrInvalidJSON == Err("Invalid JSON data: Unexpected end of JSON input", "undefined")

\* new Error(`Unknown operation: ${operation}`)
ErrUnknownOperation(operation) ==
  Err("Unknown operation: " \o operation, "undefined")

\* -------------------------------------------------- statement building
Stmt(text, params) == [text |-> text, params |-> params]

NoStmt == Stmt(<<>>, <<>>)

Prepared(err, stmt) == [err |-> err, stmt |-> stmt]

\* The back-tick character of the statement templates (written as a name: a
\* TLA+ string cannot hold the character itself).
BackTick == "<backtick>"

\* `${table}` between back-ticks
QuotedTable(table) == <<BackTick>> \o table \o <<BackTick>>

\* case "executeQuery": the query text verbatim.
BuildExecuteQuery(p) ==
  Prepared(NoError, Stmt(p.query, ParamsOrEmpty(p.queryParams)))

\* limit = returnAll ? null : limit; null is falsy like 0 and is modelled
\* as 0.
LimitOf(p) == IF p.returnAll THEN 0 ELSE p.limit

\* case "select"
BuildSelect(p) ==
  LET columns == OrElse(p.columns, <<"*">>)
      base == <<"SELECT ">> \o columns \o <<" FROM ">> \o QuotedTable(p.table)
      withWhere == IF Truthy(p.where) THEN base \o <<" WHERE ">> \o p.where
                   ELSE base
      params == IF Truthy(p.where) THEN ParamsOrEmpty(p.whereParams) ELSE <<>>
      withOrder == IF Truthy(p.orderBy)
                   THEN withWhere \o <<" ORDER BY ">> \o p.orderBy
                   ELSE withWhere
      withLimit == IF LimitOf(p) # 0
                   THEN withOrder \o <<" LIMIT ", ToString(LimitOf(p))>>
                   ELSE withOrder
  IN  Prepared(NoError, Stmt(withLimit, params))

\* values.map(() => "?").join(", ")
Placeholders(values) ==
  JoinTokens([i \in 1..Len(values) |-> <<"?">>], <<", ">>)

\* `${columns.join("`, `")}` between back-ticks
QuotedColumns(columns) ==
  <<BackTick>> \o JoinTokens([i \in 1..Len(columns) |-> <<columns[i]>>],
                        <<BackTick, ", ", BackTick>>) \o <<BackTick>>

\* Mutant of BuildInsert: the values are written into the statement text.
BuildInsertInline(p) ==
  LET data == JSONParse(p.data)
      columns == ObjectKeys(data.pairs)
      values == ObjectValues(data.pairs)
      text == <<"INSERT INTO ">> \o QuotedTable(p.table) \o <<" (">>
              \o QuotedColumns(columns) \o <<") VALUES (">>
              \o JoinTokens([i \in 1..Len(values) |-> <<values[i].text>>],
                            <<", ">>)
              \o <<")">>
  IN  IF ~data.ok THEN Prepared(ErrInvalidJSON, NoStmt)
      ELSE Prepared(NoError, Stmt(text, <<>>))

\* case "insert": the INSERT statement
BuildInsert(p) ==
  LET data == JSONParse(p.data)
      columns == ObjectKeys(data.pairs)
      values == ObjectValues(data.pairs)
      text == <<"INSERT INTO ">> \o QuotedTable(p.table) \o <<" (">>
              \o QuotedColumns(columns) \o <<") VALUES (">>
              \o Placeholders(values) \o <<")">>
  IN  IF ~data.ok THEN Prepared(ErrInvalidJSON, NoStmt)
      ELSE Prepared(NoError, Stmt(text, values))

\* columns.map((col) => `\`${col}\` = ?`).join(", ")
SetClause(columns) ==
  JoinTokens([i \in 1..Len(columns) |-> <<BackTick, columns[i], BackTick, " = ", "?">>],
             <<", ">>)

\* case "update": the UPDATE statement
BuildUpdate(p) ==
  LET data == JSONParse(p.data)
      columns == ObjectKeys(data.pairs)
      values == ObjectValues(data.pairs)
      params == values \o ParamsOrEmpty(p.whereParams)
      text == <<"UPDATE ">> \o QuotedTable(p.table) \o <<" SET ">>
              \o SetClause(columns) \o <<" WHERE ">> \o p.where
  IN  IF ~Truthy(p.where) THEN Prepared(ErrWhereUpdate, NoStmt)
      ELSE IF ~data.ok THEN Prepared(ErrInvalidJSON, NoStmt)
      ELSE Prepared(NoError, Stmt(text, params))

\* Mutant of BuildDelete: the guard on the where clause is missing.
BuildDeleteNoGuard(p) ==
  Prepared(NoError,
           Stmt(<<"DELETE FROM ">> \o QuotedTable(p.table) \o <<" WHERE ">>
                \o p.where,
                ParamsOrEmpty(p.whereParams)))

\* case "delete"
BuildDelete(p) ==
  LET text == <<"DELETE FROM ">> \o QuotedTable(p.table) \o <<" WHERE ">>
              \o p.where
  IN  IF ~Truthy(p.where) THEN Prepared(ErrWhereDelete, NoStmt)
      ELSE Prepared(NoError, Stmt(text, ParamsOrEmpty(p.whereParams)))

\* switch (operation): the first statement of an item, or the error thrown
\* before any statement is sent.
Prepare(operation, p) ==
  CASE operation = "executeQuery" -> BuildExecuteQuery(p)
    [] operation = "select" -> BuildSelect(p)
    [] operation = "insert" -> BuildInsert(p)
    [] operation = "update" -> BuildUpdate(p)
    [] operation = "delete" -> BuildDelete(p)
    [] OTHER -> Prepared(ErrUnknownOperation(operation), NoStmt)

\* The follow-up SELECT of an insert: `SELECT ${returnFields} FROM
\* \`${table}\` WHERE id = ?` with [insertResult.insertId].
InsertFollowUp(p, insertId) ==
  Stmt(<<"SELECT ">> \o OrElse(p.returnFields, <<"*">>) \o <<" FROM ">>
       \o QuotedTable(p.table) \o <<" WHERE id = ", "?">>,
       <<NumParam(insertId)>>)

\* returnFields !== "*" || insertResult.insertId
InsertNeedsFollowUp(p, insertId) ==
  OrElse(p.returnFields, <<"*">>) # <<"*">> \/ insertId # 0

\* The follow-up SELECT of an update, with the where parameters again.
UpdateFollowUp(p) ==
  Stmt(<<"SELECT ">> \o OrElse(p.returnFields, <<"*">>) \o <<" FROM ">>
       \o QuotedTable(p.table) \o <<" WHERE ">> \o p.where,
       ParamsOrEmpty(p.whereParams))

\* where && updateResult.affectedRows > 0
UpdateNeedsFollowUp(p, affectedRows) ==
  Truthy(p.where) /\ affectedRows > 0

\* ------------------------------------------------------------ JS values
\* A JS value: a primitive (type and text) or an object / array (its
\* fields as <<key, value>> pairs).
Val(type, text) == [type |-> type, text |-> text, fields |-> {}]

Undefined == Val("undefined", "")

StrVal(s) == Val("string", s)

NumVal(n) == Val("number", ToString(n))

True == Val("boolean", "true")

Obj(fields) == [type |-> "object", text |-> "", fields |-> fields]

Arr(seq) ==
  [type |-> "array", text |-> "",
   fields |-> {<<ToString(i - 1), seq[i]>> : i \in 1..Len(seq)}]

\* ------------------------------------------------------- driver results
\* What an awaited driver call settles to: a rejection with an error, a row
\* array (a SELECT) or a result header (a write).
Rejected(err) ==
  [ok |-> FALSE, err |-> err, isArray |-> FALSE, rows |-> <<>>,
   affectedRows |-> 0, insertId |-> 0, changedRows |-> 0]

RowsResult(rows) ==
  [ok |-> TRUE, err |-> NoError, isArray |-> TRUE, rows |-> rows,
   affectedRows |-> 0, insertId |-> 0, changedRows |-> 0]

HeaderResult(affectedRows, insertId) ==
  [ok |-> TRUE, err |-> NoError, isArray |-> FALSE, rows |-> <<>>,
   affectedRows |-> affectedRows, insertId |-> insertId,
   changedRows |-> affectedRows]

SampleRow == {<<"id", Val("number", "7")>>, <<"name", StrVal("n")>>}

ErrDriver == Err("You have an error in your SQL syntax", "ER_PARSE_ERROR")

ErrEnd == Err("Can't add new command when connection is in closed state", "undefined")

ArrayResults == {RowsResult(<<>>), RowsResult(<<SampleRow>>)}

HeaderResults == {HeaderResult(0, 0), HeaderResult(1, 0), HeaderResult(1, 7)}

\* The results the driver can give a statement of each operation (a raw
\* query can be either kind of statement).
PrimaryResults(operation) ==
  {Rejected(ErrDriver)} \cup
  (CASE operation = "executeQuery" -> ArrayResults \cup HeaderResults
     [] operation = "select" -> ArrayResults
     [] OTHER -> HeaderResults)

FollowUpResults == {Rejected(ErrDriver)} \cup ArrayResults

\* -------------------------------------------------------- result shaping
\* lines 320-333
ExecuteQueryRecord(item, r) ==
  Merge(item,
        {<<"rows", IF r.isArray THEN Arr([i \in 1..Len(r.rows) |-> Obj(r.rows[i])])
                   ELSE Arr(<<Obj({<<"affectedRows", NumVal(r.affectedRows)>>,
                                   <<"insertId", NumVal(r.insertId)>>})>>)>>,
         <<"rowCount", IF r.isArray THEN NumVal(Len(r.rows)) ELSE NumVal(1)>>,
         <<"affectedRows", IF r.isArray THEN Undefined ELSE NumVal(r.affectedRows)>>,
         <<"insertId", IF r.isArray THEN Undefined ELSE NumVal(r.insertId)>>,
         <<"fields", IF r.isArray THEN Arr(<<>>) ELSE Undefined>>})

\* lines 367-373
SelectRecord(item, r) ==
  Merge(item,
        {<<"rows", Arr([i \in 1..Len(r.rows) |-> Obj(r.rows[i])])>>,
         <<"rowCount", NumVal(Len(r.rows))>>})

\* lines 403-406, 414-416: {insertId, affectedRows}, then ...rows[0]
InsertedRow(r, fetched) ==
  LET base == {<<"insertId", NumVal(r.insertId)>>,
               <<"affectedRows", NumVal(r.affectedRows)>>}
  IN  IF fetched.ok /\ Len(fetched.rows) > 0
      THEN Merge(base, fetched.rows[1])
      ELSE base

\* lines 425-431
InsertRecord(item, r, fetched) ==
  Merge(item,
        {<<"inserted", Obj(InsertedRow(r, fetched))>>,
         <<"rowCount", NumVal(r.affectedRows)>>})

\* lines 477, 485, 493-500
UpdateRecord(item, r, fetched) ==
  Merge(item,
        {<<"updated", IF fetched.ok
                      THEN Arr([i \in 1..Len(fetched.rows) |-> Obj(fetched.rows[i])])
                      ELSE Arr(<<>>)>>,
         <<"rowCount", NumVal(r.affectedRows)>>,
         <<"changedRows", NumVal(r.changedRows)>>})

\* lines 523-529
DeleteRecord(item, r) ==
  Merge(item, {<<"deleted", True>>, <<"rowCount", NumVal(r.affectedRows)>>})

\* lines 540-548
ErrorRecord(item, e) ==
  Merge(item,
        {<<"error", True>>,
         <<"errorMessage", StrVal(e.message)>>,
         <<"errorCode", IF e.code = "undefined" THEN Undefined ELSE StrVal(e.code)>>,
         <<"errorDetails", StrVal("Error: " \o e.message)>>})

\* No follow-up fetch was made.
NotFetched == Rejected(NoError)

\* --------------------------------------------------------------- inputs
\* Credentials as the host resolves them.  available: "ok", "null"
\* (getCredentials resolves to nothing) or "throws" (it rejects); a field
\* that is absent is "" (port: 0).
Creds(available, host, database, user, password, port) ==
  [available |-> available, host |-> host, database |-> database,
   user |-> user, password |-> password, port |-> port]

FullCreds == Creds("ok", "db.local", "shop", "root", "secret", 0)

CredentialSet ==
  {FullCreds,
   Creds("ok", "db.local", "shop", "root", "secret", 3307),
   Creds("null", "", "", "", "", 0),
   Creds("throws", "", "", "", "", 0),
   Creds("ok", "", "shop", "root", "secret", 0),
   Creds("ok", "db.local", "", "root", "secret", 0),
   Creds("ok", "db.local", "shop", "", "secret", 0),
   Creds("ok", "db.local", "shop", "root", "", 0)}

\* The data a credential test is given: every combination of the four
\* required fields present or absent.
TestDataSet ==
  {Creds("ok", h, d, u, pw, 0) :
     h \in {"", "db.local"}, d \in {"", "shop"},
     u \in {"", "root"}, pw \in {"", "secret"}}

ErrNoCredentials == Err("Credentials not found", "undefined")

\* Input items (the json of each): one with a field of its own, and one as
\* an upstream node with continue-on-fail leaves it, with fields under keys
\* the executor writes too.  The empty item is the synthetic one of an empty
\* batch.
ItemSet ==
  {{<<"id", StrVal("1")>>},
   {<<"error", True>>, <<"rowCount", NumVal(9)>>, <<"note", StrVal("kept")>>}}

Batches == UNION {[1..n -> ItemSet] : n \in 0..MaxItems}

\* Node parameters: the declared defaults (lines 36-224) ...
DefaultParams ==
  [operation |-> "executeQuery",
   query |-> <<"SELECT * FROM users WHERE status = ", "?">>,
   queryParams |-> <<>>,
   table |-> <<"users">>,
   returnAll |-> TRUE,
   limit |-> 50,
   where |-> <<>>,
   whereParams |-> <<>>,
   columns |-> <<"*">>,
   orderBy |-> <<>>,
   data |-> <<Tok("{"), Tok("}")>>,
   returnFields |-> <<"*">>]

\* ... and the values each field is given.
WhereValues == {<<>>, <<"id = ", "?", " AND status = ", "?">>}

\* "", "123, active" and " 42 ,,x,"
ParamsValues ==
  {<<>>, <<"123", ",", " ", "active">>, <<" ", "42", " ", ",", ",", "x", ",">>}

DataValues ==
  {<<Tok("{"), JStr("name"), Tok(":"), JStr("John"), Tok(","),
     JStr("age"), Tok(":"), JNum("30"), Tok("}")>>,
   <<Tok("{"), Tok("}")>>,
   <<Tok("{"), JStr("name"), Tok(":")>>}

ReturnFieldsValues == {<<"*">>, <<"id", ",", "name">>}

ExecuteQueryParams ==
  {[DefaultParams EXCEPT !.queryParams = qp] : qp \in ParamsValues}

SelectParams ==
  {[DefaultParams EXCEPT !.operation = "select", !.columns = c, !.where = w,
                         !.whereParams = wp, !.returnAll = ra, !.limit = l,
                         !.orderBy = ob] :
     c \in {<<>>, <<"id", ",", "name">>}, w \in WhereValues,
     wp \in ParamsValues, ra \in BOOLEAN, l \in {0, 50},
     ob \in {<<>>, <<"name ASC">>}}

InsertParams ==
  {[DefaultParams EXCEPT !.operation = "insert", !.data = d,
                         !.returnFields = rf] :
     d \in DataValues, rf \in ReturnFieldsValues \cup {<<>>}}

UpdateParams ==
  {[DefaultParams EXCEPT !.operation = "update", !.data = d, !.where = w,
                         !.whereParams = wp, !.returnFields = rf] :
     d \in DataValues, w \in WhereValues, wp \in ParamsValues,
     rf \in ReturnFieldsValues}

DeleteParams ==
  {[DefaultParams EXCEPT !.operation = "delete", !.where = w,
                         !.whereParams = wp] :
     w \in WhereValues, wp \in ParamsValues}

UnknownParams == {[DefaultParams EXCEPT !.operation = "upsert"]}

ParamSet ==
  ExecuteQueryParams \cup SelectParams \cup InsertParams \cup UpdateParams
  \cup DeleteParams \cup UnknownParams

\* ---------------------------------------------------------------- state
VARIABLES
  handler,         \* the entry point invoked: "execute", "test", "getTables"
  pc,              \* the position in its code
  continueOnFail,  \* this.settings?.continueOnFail ?? false
  credentials,     \* what getCredentials gives / the data given to test
  params,          \* what getNodeParameter gives
  items,           \* inputData.main[0]
  idx,             \* the index (from 1) of the item being processed
  results,         \* the results array
  primary,         \* the settled primary statement awaiting its follow-up
  poolConfig,      \* the options createPool was given
  poolsCreated,    \* calls of mysql.createPool
  poolEnds,        \* calls of pool.end
  connsOpened,     \* resolved calls of mysql.createConnection
  connEnds,        \* calls of connection.end
  sent,            \* statements handed to the driver, in order
  thrown,          \* the error in flight towards the caller
  caught,          \* the errors the per-item catch received, with their item
  fetched,         \* rows of the tester's / lister's query
  logs,            \* what was logged through this.logger
  outcome          \* how the handler ended

vars ==
  <<handler, pc, continueOnFail, credentials, params, items, idx, results,
    primary, poolConfig, poolsCreated, poolEnds, connsOpened, connEnds, sent,
    thrown, caught, fetched, logs, outcome>>

NoOutcome == [kind |-> "none", error |-> NoError, value |-> <<>>]

Returned(value) == [kind |-> "return", error |-> NoError, value |-> value]

Raised(err) == [kind |-> "raise", error |-> err, value |-> <<>>]

NoPool == [host |-> "", port |-> 0, database |-> "", user |-> "", password |-> ""]

InitCommon ==
  /\ pc = "start"
  /\ idx = 0
  /\ results = <<>>
  /\ primary = NotFetched
  /\ poolConfig = NoPool
  /\ poolsCreated = 0
  /\ poolEnds = 0
  /\ connsOpened = 0
  /\ connEnds = 0
  /\ sent = <<>>
  /\ thrown = NoError
  /\ caught = <<>>
  /\ fetched = <<>>
  /\ logs = <<>>
  /\ outcome = NoOutcome

\* An invocation of execute: any batch and setting, with either the
\* credentials or the node parameters varied.
InitExecute ==
  /\ handler = "execute"
  /\ continueOnFail \in BOOLEAN
  /\ items \in Batches
  /\ \/ credentials \in CredentialSet /\ params = DefaultParams
     \/ credentials = FullCreds /\ params \in ParamSet

InitTest ==
  /\ handler = "test"
  /\ continueOnFail = FALSE
  /\ items = <<>>
  /\ credentials \in TestDataSet
  /\ params = DefaultParams

InitGetTables ==
  /\ handler = "getTables"
  /\ continueOnFail = FALSE
  /\ items = <<>>
  /\ credentials \in CredentialSet
  /\ params = DefaultParams

Init == InitCommon /\ (InitExecute \/ InitTest \/ InitGetTables)

\* -------------------------------------------------------------- execute
\* line 244: items.length > 0 ? items : [{ json: {} }]
ItemsToProcess(its) == IF Len(its) > 0 THEN its ELSE <<{}>>

\* lines 258-262: the guard on the resolved credentials
CredentialsMissing(c) == c.available = "null" \/ ~Present(c.host)

\* lines 289-300: the options of the pool
PoolConfig(c) ==
  [host |-> c.host,
   port |-> IF c.port # 0 THEN c.port ELSE DefaultPort,
   database |-> c.database,
   user |-> c.user,
   password |-> c.password]

\* A statement as the driver receives it, with what the awaited call has
\* settled to: <<>> while it is pending, <<r>> once it has settled to r.
Sent(item, role, stmt, closed, settled) ==
  [item |-> item, role |-> role, text |-> stmt.text, params |-> stmt.params,
   afterEnd |-> closed, settled |-> settled]

Pending == <<>>

\* The awaited statement, the last one sent, settles to r.
Settle(log, r) == [log EXCEPT ![Len(log)].settled = <<r>>]

Log(level, message) == [level |-> level, message |-> message]

\* Where the for loop goes after item i: the next item, or the finally
\* block.
AfterItem(i) ==
  IF i < Len(ItemsToProcess(items)) THEN "loop" ELSE "finally"

\* results.push(record) and on to the next item
PushResult(record) ==
  /\ results' = Append(results, record)
  /\ idx' = idx + 1
  /\ pc' = AfterItem(idx)

Caught(i, e) == [item |-> i, error |-> e]

\* Mutant of CatchItemError: with continue-on-fail the failing item is
\* skipped without a record.
CatchItemErrorSkips(item, e) ==
  /\ caught' = Append(caught, Caught(idx, e))
  /\ IF continueOnFail
     THEN /\ idx' = idx + 1
          /\ pc' = AfterItem(idx)
          /\ UNCHANGED <<results, thrown>>
     ELSE /\ thrown' = e
          /\ pc' = "finally"
          /\ UNCHANGED <<results, idx>>

\* Mutant of CatchItemError: the error thrown again leaves execute without
\* passing through a finally block.
CatchItemErrorNoFinally(item, e) ==
  /\ caught' = Append(caught, Caught(idx, e))
  /\ IF continueOnFail
     THEN /\ PushResult(ErrorRecord(item, e))
          /\ thrown' = thrown
     ELSE /\ thrown' = e
          /\ pc' = "done"
          /\ UNCHANGED <<results, idx>>

\* lines 536-553: the catch of one item
CatchItemError(item, e) ==
  /\ caught' = Append(caught, Caught(idx, e))
  /\ IF continueOnFail
     THEN /\ PushResult(ErrorRecord(item, e))
          /\ thrown' = thrown
     ELSE /\ thrown' = e
          /\ pc' = "finally"
          /\ UNCHANGED <<results, idx>>

\* The record of an item whose statements are all settled.
ResultRecord(operation, item, r, f) ==
  CASE operation = "executeQuery" -> ExecuteQueryRecord(item, r)
    [] operation = "select" -> SelectRecord(item, r)
    [] operation = "insert" -> InsertRecord(item, r, f)
    [] operation = "update" -> UpdateRecord(item, r, f)
    [] OTHER -> DeleteRecord(item, r)

\* Whether a follow-up SELECT comes after the settled primary statement.
NeedsFollowUp(p, r) ==
  \/ p.operation = "insert" /\ InsertNeedsFollowUp(p, r.insertId)
  \/ p.operation = "update" /\ UpdateNeedsFollowUp(p, r.affectedRows)

FollowUp(p, r) ==
  IF p.operation = "insert" THEN InsertFollowUp(p, r.insertId)
  ELSE UpdateFollowUp(p)

\* lines 239-284: the start of execute and the resolution of credentials
ExecuteResolveCredentials ==
  /\ handler = "execute"
  /\ pc = "start"
  /\ logs' = Append(logs, Log("info", "continueOnFail setting"))
  /\ IF credentials.available = "throws"
     THEN /\ outcome' = Raised(ErrFailedCredentials(ErrNoCredentials))
          /\ pc' = "done"
     ELSE IF CredentialsMissing(credentials)
     THEN /\ outcome' = Raised(ErrFailedCredentials(ErrCredentialsRequired))
          /\ pc' = "done"
     ELSE /\ outcome' = outcome
          /\ pc' = "createPool"
  /\ UNCHANGED <<handler, continueOnFail, credentials, params, items, idx,
                 results, primary, poolConfig, poolsCreated, poolEnds,
                 connsOpened, connEnds, sent, thrown, caught, fetched>>

\* lines 286-303: the operation is read, the pool created, the loop entered
ExecuteCreatePool ==
  /\ handler = "execute"
  /\ pc = "createPool"
  /\ poolConfig' = PoolConfig(credentials)
  /\ poolsCreated' = poolsCreated + 1
  /\ idx' = 1
  /\ pc' = "loop"
  /\ UNCHANGED <<handler, continueOnFail, credentials, params, items, results,
                 primary, poolEnds, connsOpened, connEnds, sent, thrown, caught,
                 fetched, logs, outcome>>

\* Mutant of ExecuteItem: the statement is handed to the driver without
\* being awaited, and the loop goes on to the next item.
ExecuteItemNoAwait ==
  /\ handler = "execute"
  /\ pc = "loop"
  /\ LET item == ItemsToProcess(items)[idx]
         prep == Prepare(params.operation, params)
     IN  IF prep.err # NoError
         THEN /\ CatchItemError(item, prep.err)
              /\ sent' = sent
         ELSE /\ sent' = Append(sent, Sent(idx, "primary", prep.stmt,
                                           poolEnds > 0, Pending))
              /\ PushResult(item)
              /\ UNCHANGED <<thrown, caught>>
  /\ UNCHANGED <<handler, continueOnFail, credentials, params, items, primary,
                 poolConfig, poolsCreated, poolEnds, connsOpened, connEnds,
                 fetched, logs, outcome>>

\* lines 303-535: one item up to its first awaited statement: the statement
\* is built and handed to the driver, or the item fails before anything is
\* sent.
ExecuteItem ==
  /\ handler = "execute"
  /\ pc = "loop"
  /\ LET item == ItemsToProcess(items)[idx]
         prep == Prepare(params.operation, params)
     IN  IF prep.err # NoError
         THEN /\ CatchItemError(item, prep.err)
              /\ sent' = sent
         ELSE /\ sent' = Append(sent, Sent(idx, "primary", prep.stmt,
                                           poolEnds > 0, Pending))
              /\ pc' = "primary"
              /\ UNCHANGED <<results, idx, thrown, caught>>
  /\ UNCHANGED <<handler, continueOnFail, credentials, params, items, primary,
                 poolConfig, poolsCreated, poolEnds, connsOpened, connEnds,
                 fetched, logs, outcome>>

\* lines 318, 365, 400, 474, 521: the awaited statement settles: rejected,
\* it is thrown to the catch of the item; otherwise the follow-up SELECT of
\* an insert or update is handed to the driver, or the record is pushed.
ExecutePrimary ==
  /\ handler = "execute"
  /\ pc = "primary"
  /\ LET item == ItemsToProcess(items)[idx]
     IN  \E r \in PrimaryResults(params.operation) :
           IF ~r.ok
           THEN /\ sent' = Settle(sent, r)
                /\ CatchItemError(item, r.err)
                /\ primary' = primary
           ELSE IF NeedsFollowUp(params, r)
           THEN /\ sent' = Append(Settle(sent, r),
                                  Sent(idx, "followUp", FollowUp(params, r),
                                       poolEnds > 0, Pending))
                /\ primary' = r
                /\ pc' = "followUp"
                /\ UNCHANGED <<results, idx, thrown, caught>>
           ELSE /\ sent' = Settle(sent, r)
                /\ PushResult(ResultRecord(params.operation, item, r,
                                           NotFetched))
                /\ UNCHANGED <<primary, thrown, caught>>
  /\ UNCHANGED <<handler, continueOnFail, credentials, params, items,
                 poolConfig, poolsCreated, poolEnds, connsOpened, connEnds,
                 fetched, logs, outcome>>

\* lines 419 and 487: the message logged when the follow-up SELECT fails
FetchWarning(operation) ==
  IF operation = "insert" THEN "Could not fetch inserted row"
  ELSE "Could not fetch updated rows"

\* Mutant of ExecuteFollowUp: a failing follow-up SELECT is thrown to the
\* catch of the item like a failing primary statement.
ExecuteFollowUpFatal ==
  /\ handler = "execute"
  /\ pc = "followUp"
  /\ LET item == ItemsToProcess(items)[idx]
     IN  \E f \in FollowUpResults :
           /\ sent' = Settle(sent, f)
           /\ IF f.ok
              THEN /\ PushResult(ResultRecord(params.operation, item, primary, f))
                   /\ UNCHANGED <<thrown, caught>>
              ELSE CatchItemError(item, f.err)
  /\ primary' = NotFetched
  /\ UNCHANGED <<handler, continueOnFail, credentials, params, items,
                 poolConfig, poolsCreated, poolEnds, connsOpened, connEnds,
                 fetched, logs, outcome>>

\* lines 408-423 and 478-491: the follow-up SELECT of an insert or update
\* settles; its failure is logged and swallowed.
ExecuteFollowUp ==
  /\ handler = "execute"
  /\ pc = "followUp"
  /\ LET item == ItemsToProcess(items)[idx]
     IN  \E f \in FollowUpResults :
           /\ sent' = Settle(sent, f)
           /\ logs' = IF f.ok THEN logs
                      ELSE Append(logs, Log("warn", FetchWarning(params.operation)))
           /\ PushResult(ResultRecord(params.operation, item, primary, f))
  /\ primary' = NotFetched
  /\ UNCHANGED <<handler, continueOnFail, credentials, params, items,
                 poolConfig, poolsCreated, poolEnds, connsOpened, connEnds,
                 thrown, caught, fetched, outcome>>

\* lines 555-560: the finally block awaits pool.end(); its rejection
\* replaces whatever the try block completed with.
ExecutePoolEnd ==
  /\ handler = "execute"
  /\ pc = "finally"
  /\ poolEnds' = poolEnds + 1
  /\ \E ended \in BOOLEAN :
       outcome' = IF ~ended THEN Raised(ErrEnd)
                  ELSE IF thrown # NoError THEN Raised(thrown)
                  ELSE Returned(results)
  /\ pc' = "done"
  /\ UNCHANGED <<handler, continueOnFail, credentials, params, items, idx,
                 results, primary, poolConfig, poolsCreated, connsOpened,
                 connEnds, sent, thrown, caught, fetched, logs>>

\* ------------------------------------------------------ credential test
TestResult(success, message) == [success |-> success, message |-> message]

\* The error codes createConnection and the liveness query are seen to
\* fail with ("undefined": an error without a code).
ConnectErrors ==
  {Err("connect failed", c) :
     c \in {"ECONNREFUSED", "ENOTFOUND", "ETIMEDOUT", "ER_ACCESS_DENIED_ERROR",
            "ER_BAD_DB_ERROR", "ER_DBACCESS_DENIED_ERROR",
            "PROTOCOL_CONNECTION_LOST", "ER_CON_COUNT_ERROR",
            "ER_HOST_IS_BLOCKED", "undefined"}}

QueryErrors ==
  {Err("query failed", c) : c \in {"PROTOCOL_CONNECTION_LOST", "ER_PARSE_ERROR"}}

\* `${data.host}:${data.port || 3306}`
HostPort(data) ==
  data.host \o ":" \o ToString(IF data.port # 0 THEN data.port ELSE DefaultPort)

\* lines 126-186: the message an error is classified to
Classify(e, data) ==
  CASE e.code = "ECONNREFUSED" ->
         "Cannot connect to database server at " \o HostPort(data)
         \o ". Connection refused."
    [] e.code = "ENOTFOUND" ->
         "Cannot resolve host: " \o data.host \o ". Please check the hostname."
    [] e.code = "ETIMEDOUT" ->
         "Connection timeout to " \o HostPort(data)
         \o ". Please check firewall and network settings."
    [] e.code = "ER_ACCESS_DENIED_ERROR" ->
         "Authentication failed. Invalid username or password."
    [] e.code = "ER_BAD_DB_ERROR" ->
         "Database \"" \o data.database \o "\" does not exist."
    [] e.code = "ER_DBACCESS_DENIED_ERROR" ->
         "Authorization failed. User does not have access to this database."
    [] e.code = "PROTOCOL_CONNECTION_LOST" ->
         "Connection lost to MySQL server. Please check server status."
    [] e.code = "ER_CON_COUNT_ERROR" ->
         "Too many connections to MySQL server. Try again later."
    [] e.code = "ER_HOST_IS_BLOCKED" ->
         "Host is blocked due to many connection errors. Contact your database administrator."
    [] OTHER -> "Connection failed: " \o e.message

\* line 77: a required field is missing
TestFieldsMissing(data) ==
  \/ ~Present(data.host)
  \/ ~Present(data.database)
  \/ ~Present(data.user)
  \/ ~Present(data.password)

\* lines 75-82: the required fields are validated
TestValidate ==
  /\ handler = "test"
  /\ pc = "start"
  /\ IF TestFieldsMissing(credentials)
     THEN /\ outcome' = Returned(TestResult(FALSE,
                           "Host, database, user, and password are required"))
          /\ pc' = "done"
     ELSE /\ outcome' = outcome
          /\ pc' = "connect"
  /\ UNCHANGED <<handler, continueOnFail, credentials, params, items, idx,
                 results, primary, poolConfig, poolsCreated, poolEnds,
                 connsOpened, connEnds, sent, thrown, caught, fetched, logs>>

\* lines 85-96 (and the classification, 126-186, when it rejects)
TestConnect ==
  /\ handler = "test"
  /\ pc = "connect"
  /\ \/ /\ connsOpened' = connsOpened + 1
        /\ pc' = "query"
        /\ outcome' = outcome
     \/ \E e \in ConnectErrors :
          /\ outcome' = Returned(TestResult(FALSE, Classify(e, credentials)))
          /\ pc' = "done"
          /\ connsOpened' = connsOpened
  /\ UNCHANGED <<handler, continueOnFail, credentials, params, items, idx,
                 results, primary, poolConfig, poolsCreated, poolEnds,
                 connEnds, sent, thrown, caught, fetched, logs>>

LivenessQuery ==
  Stmt(<<"SELECT NOW() as current_time, VERSION() as version">>, <<>>)

\* What the liveness query resolves to: no row, or the one row.
LivenessResults == {<<>>, <<{<<"version", StrVal("8.0.36")>>}>>}

\* lines 98-102: the liveness query
TestQuery ==
  /\ handler = "test"
  /\ pc = "query"
  /\ \/ \E rows \in LivenessResults :
          /\ sent' = Append(sent, Sent(0, "primary", LivenessQuery,
                                       connEnds > 0, <<RowsResult(rows)>>))
          /\ fetched' = rows
          /\ thrown' = thrown
          /\ pc' = "end"
     \/ \E e \in QueryErrors :
          /\ sent' = Append(sent, Sent(0, "primary", LivenessQuery,
                                       connEnds > 0, <<Rejected(e)>>))
          /\ thrown' = e
          /\ fetched' = fetched
          /\ pc' = "catchEnd"
  /\ UNCHANGED <<caught, handler, continueOnFail, credentials, params, items, idx,
                 results, primary, poolConfig, poolsCreated, poolEnds,
                 connsOpened, connEnds, logs, outcome>>

\* lines 104-115: connection.end() after the query, then the result when
\* there are rows
TestEnd ==
  /\ handler = "test"
  /\ pc = "end"
  /\ connEnds' = connEnds + 1
  /\ \E ended \in BOOLEAN :
       IF ~ended
       THEN /\ thrown' = ErrEnd
            /\ pc' = "catchEnd"
            /\ outcome' = outcome
       ELSE IF Len(fetched) > 0
       THEN /\ outcome' = Returned(TestResult(TRUE,
                           "Connected successfully to MySQL "
                           \o Get(fetched[1], "version").text \o " at "
                           \o HostPort(credentials) \o "/"
                           \o credentials.database))
            /\ pc' = "done"
            /\ thrown' = thrown
       ELSE /\ pc' = "endEmpty"
            /\ UNCHANGED <<outcome, thrown>>
  /\ UNCHANGED <<caught, handler, continueOnFail, credentials, params, items, idx,
                 results, primary, poolConfig, poolsCreated, poolEnds,
                 connsOpened, sent, fetched, logs>>

\* lines 117-121: connection.end() again when the query gave no rows
TestEndEmpty ==
  /\ handler = "test"
  /\ pc = "endEmpty"
  /\ connEnds' = connEnds + 1
  /\ \E ended \in BOOLEAN :
       IF ~ended
       THEN /\ thrown' = ErrEnd
            /\ pc' = "catchEnd"
            /\ outcome' = outcome
       ELSE /\ outcome' = Returned(TestResult(TRUE, "Connection successful"))
            /\ pc' = "done"
            /\ thrown' = thrown
  /\ UNCHANGED <<caught, handler, continueOnFail, credentials, params, items, idx,
                 results, primary, poolConfig, poolsCreated, poolEnds,
                 connsOpened, sent, fetched, logs>>

\* Mutant of TestCatchEnd: the catch throws the error again without
\* ending the connection.
TestCatchEndNoRelease ==
  /\ handler = "test"
  /\ pc = "catchEnd"
  /\ outcome' = Returned(TestResult(FALSE, Classify(thrown, credentials)))
  /\ pc' = "done"
  /\ UNCHANGED <<handler, continueOnFail, credentials, params, items, idx,
                 results, primary, poolConfig, poolsCreated, poolEnds,
                 connsOpened, connEnds, sent, thrown, caught, fetched, logs>>

\* lines 122-186: catch (queryError): connection.end(), the error thrown
\* again and classified; a rejection of end() is classified in its place.
TestCatchEnd ==
  /\ handler = "test"
  /\ pc = "catchEnd"
  /\ connEnds' = connEnds + 1
  /\ \E ended \in BOOLEAN :
       outcome' = Returned(TestResult(FALSE,
                    Classify(IF ended THEN thrown ELSE ErrEnd, credentials)))
  /\ pc' = "done"
  /\ UNCHANGED <<handler, continueOnFail, credentials, params, items, idx,
                 results, primary, poolConfig, poolsCreated, poolEnds,
                 connsOpened, sent, thrown, caught, fetched, logs>>

\* ------------------------------------------------------------ getTables
Option(name, value) == [name |-> name, value |-> value]

\* lines 636-640: one option per row
TableOptions(rows) ==
  [i \in 1..Len(rows) |->
     Option(Get(rows[i], "table_name").text, Get(rows[i], "table_name").text)]

TableRow(name) == {<<"table_name", StrVal(name)>>}

CatalogResults == {<<>>, <<TableRow("orders"), TableRow("users")>>}

CatalogQuery(database) ==
  Stmt(<<"SELECT table_name FROM information_schema.tables WHERE table_schema = ",
         "?", " AND table_type = 'BASE TABLE' ORDER BY table_name">>,
       <<[type |-> "string", text |-> database]>>)

\* lines 570-606: the credentials are resolved
TablesResolveCredentials ==
  /\ handler = "getTables"
  /\ pc = "start"
  /\ IF credentials.available = "throws"
     THEN /\ outcome' = Returned(<<Option("Error: Credentials required", "")>>)
          /\ pc' = "done"
     ELSE IF CredentialsMissing(credentials)
     THEN /\ outcome' = Returned(<<Option("No credentials selected", "")>>)
          /\ pc' = "done"
     ELSE /\ outcome' = outcome
          /\ pc' = "connect"
  /\ UNCHANGED <<handler, continueOnFail, credentials, params, items, idx,
                 results, primary, poolConfig, poolsCreated, poolEnds,
                 connsOpened, connEnds, sent, thrown, caught, fetched, logs>>

\* lines 609-619 (and the catch, 641-655, with no connection to end)
TablesConnect ==
  /\ handler = "getTables"
  /\ pc = "connect"
  /\ \/ /\ connsOpened' = connsOpened + 1
        /\ pc' = "query"
        /\ UNCHANGED <<outcome, logs>>
     \/ \E e \in ConnectErrors :
          /\ logs' = Append(logs, Log("error", "Failed to load tables"))
          /\ outcome' = Returned(<<Option("Error loading tables - check credentials", "")>>)
          /\ pc' = "done"
          /\ connsOpened' = connsOpened
  /\ UNCHANGED <<handler, continueOnFail, credentials, params, items, idx,
                 results, primary, poolConfig, poolsCreated, poolEnds,
                 connEnds, sent, thrown, caught, fetched>>

\* lines 621-631: the catalog query
TablesQuery ==
  /\ handler = "getTables"
  /\ pc = "query"
  /\ \/ \E rows \in CatalogResults :
          /\ sent' = Append(sent, Sent(0, "primary",
                                       CatalogQuery(credentials.database),
                                       connEnds > 0, <<RowsResult(rows)>>))
          /\ fetched' = rows
          /\ thrown' = thrown
          /\ pc' = "end"
     \/ \E e \in QueryErrors :
          /\ sent' = Append(sent, Sent(0, "primary",
                                       CatalogQuery(credentials.database),
                                       connEnds > 0, <<Rejected(e)>>))
          /\ thrown' = e
          /\ fetched' = fetched
          /\ pc' = "catchEnd"
  /\ UNCHANGED <<caught, handler, continueOnFail, credentials, params, items, idx,
                 results, primary, poolConfig, poolsCreated, poolEnds,
                 connsOpened, connEnds, logs, outcome>>

\* lines 633-640: connection.end(), then the options
TablesEnd ==
  /\ handler = "getTables"
  /\ pc = "end"
  /\ connEnds' = connEnds + 1
  /\ \E ended \in BOOLEAN :
       IF ~ended
       THEN /\ thrown' = ErrEnd
            /\ pc' = "catchEnd"
            /\ outcome' = outcome
       ELSE /\ outcome' = Returned(TableOptions(fetched))
            /\ pc' = "done"
            /\ thrown' = thrown
  /\ UNCHANGED <<caught, handler, continueOnFail, credentials, params, items, idx,
                 results, primary, poolConfig, poolsCreated, poolEnds,
                 connsOpened, sent, fetched, logs>>

\* lines 641-655: the catch with a connection: connection.end(), whose
\* rejection leaves the handler; otherwise the error is logged and the
\* synthetic option returned.
TablesCatchEnd ==
  /\ handler = "getTables"
  /\ pc = "catchEnd"
  /\ connEnds' = connEnds + 1
  /\ \E ended \in BOOLEAN :
       IF ~ended
       THEN /\ outcome' = Raised(ErrEnd)
            /\ logs' = logs
       ELSE /\ outcome' = Returned(<<Option("Error loading tables - check credentials", "")>>)
            /\ logs' = Append(logs, Log("error", "Failed to load tables"))
  /\ pc' = "done"
  /\ UNCHANGED <<handler, continueOnFail, credentials, params, items, idx,
                 results, primary, poolConfig, poolsCreated, poolEnds,
                 connsOpened, sent, thrown, caught, fetched>>

Next ==
  \/ ExecuteResolveCredentials
  \/ ExecuteCreatePool
  \/ ExecuteItem
  \/ ExecutePrimary
  \/ ExecuteFollowUp
  \/ ExecutePoolEnd
  \/ TestValidate
  \/ TestConnect
  \/ TestQuery
  \/ TestEnd
  \/ TestEndEmpty
  \/ TestCatchEnd
  \/ TablesResolveCredentials
  \/ TablesConnect
  \/ TablesQuery
  \/ TablesEnd
  \/ TablesCatchEnd

Spec == Init /\ [][Next]_vars

\* ================================================================ claims
\* The keys an output record is given by the executor itself.
OperationKeys ==
  {"rows", "rowCount", "affectedRows", "insertId", "fields", "inserted",
   "updated", "changedRows", "deleted", "error", "errorMessage", "errorCode",
   "errorDetails"}

ErrorKeys == {"error", "errorMessage", "errorCode", "errorDetails"}

\* The keys of an object.
Keys(obj) == {f[1] : f \in obj}

\* The fields of an object under keys the executor does not write.
OwnFields(obj) == {f \in obj : f[1] \notin OperationKeys}

ExecuteDone == handler = "execute" /\ pc = "done"

ExecuteReturned == ExecuteDone /\ outcome.kind = "return"

\* The number of items execute processes: max(len(input), 1).
ExpectedCount == IF Len(items) > 1 THEN Len(items) ELSE 1

\* The items whose processing ended in the per-item catch.
FailedItems == {caught[i].item : i \in 1..Len(caught)}

\* C1: when execute returns, it returns max(len(input), 1) records; the
\* k-th record belongs to the k-th input item: it holds every key of that
\* item, and under every key the executor does not write itself it holds
\* exactly the item's fields.  An empty batch gives the one record of the
\* synthetic empty item.
C1_OneRecordPerItemInOrder ==
  ExecuteReturned =>
    /\ Len(outcome.value) = ExpectedCount
    /\ \A k \in 1..Len(items) :
         /\ Keys(items[k]) \subseteq Keys(outcome.value[k])
         /\ OwnFields(outcome.value[k]) = OwnFields(items[k])
    /\ Len(items) = 0 => OwnFields(outcome.value[1]) = {}

\* C1 witness: execute has returned for a batch of two different items, one
\* of which has fields.
C1_Witness ==
  /\ ExecuteReturned
  /\ Len(items) >= 2
  /\ items[1] # items[2]
  /\ OwnFields(items[2]) # {}

\* A record as the catch of a failing item shapes it: error:true, the three
\* error fields and every key of the item.
IsErrorRecord(record, item) ==
  /\ <<"error", True>> \in record
  /\ ErrorKeys \subseteq Keys(record)
  /\ Keys(item) \subseteq Keys(record)
  /\ OwnFields(record) = OwnFields(item)

\* C2 as stated: with continue-on-fail, execute returns N records, the
\* record of each failing item carries error:true with the error fields
\* and the item's fields, and the record of each non-failing item does not
\* carry error:true.
C2_Original ==
  (ExecuteReturned /\ continueOnFail /\ Len(caught) > 0) =>
    /\ Len(outcome.value) = ExpectedCount
    /\ \A k \in 1..Len(outcome.value) :
         IF k \in FailedItems
         THEN IsErrorRecord(outcome.value[k], ItemsToProcess(items)[k])
         ELSE <<"error", True>> \notin outcome.value[k]

\* C2 amended: with continue-on-fail every item is processed whatever
\* failed before it, each item is caught at most once and adds exactly one
\* record, in order; the record of a failing item is an error record, and
\* the record of a non-failing item has the error fields of the input item
\* and no others (error:true only when the input item carried it).  The N
\* records are what execute returns when it returns.
C2_ErrorsBecomeRecords ==
  (handler = "execute" /\ continueOnFail) =>
    /\ Len(caught) = Cardinality(FailedItems)
    /\ pc \in {"loop", "primary", "followUp"} => Len(results) = idx - 1
    /\ pc \in {"finally", "done"} /\ poolsCreated > 0 =>
         Len(results) = ExpectedCount
    /\ \A k \in 1..Len(results) :
         IF k \in FailedItems
         THEN IsErrorRecord(results[k], ItemsToProcess(items)[k])
         ELSE \A key \in ErrorKeys :
                key \in Keys(results[k]) =>
                  /\ key \in Keys(ItemsToProcess(items)[k])
                  /\ Get(results[k], key) = Get(ItemsToProcess(items)[k], key)
    /\ ExecuteReturned => outcome.value = results

\* C2 witness: execute has returned a batch in which the first item failed
\* and the second did not.
C2_Witness ==
  /\ ExecuteReturned
  /\ continueOnFail
  /\ Len(items) >= 2
  /\ 1 \in FailedItems
  /\ 2 \notin FailedItems

\* C3 as stated: with continue-on-fail disabled, the first failure of an
\* item aborts the batch: its error is what execute raises, no statement
\* is sent for a later item and no later item is processed.
C3_FirstFailureAborts ==
  (handler = "execute" /\ ~continueOnFail /\ Len(caught) > 0) =>
    /\ Len(caught) = 1
    /\ idx = caught[1].item
    /\ \A i \in 1..Len(sent) : sent[i].item <= caught[1].item
    /\ Len(results) = caught[1].item - 1
    /\ pc = "done" => outcome = Raised(caught[1].error)

\* What remains of C3 when the teardown fails too: execute raises the
\* error of the item or that of pool.end(), and nothing is done for a
\* later item.
AbortLeavesLaterItemsUntouched ==
  (handler = "execute" /\ ~continueOnFail /\ Len(caught) > 0) =>
    /\ Len(caught) = 1
    /\ idx = caught[1].item
    /\ \A i \in 1..Len(sent) : sent[i].item <= caught[1].item
    /\ Len(results) = caught[1].item - 1
    /\ pc = "done" => outcome \in {Raised(caught[1].error), Raised(ErrEnd)}

\* C4: execute creates at most one pool; once it has ended, a pool that was
\* created has had pool.end() called exactly once; pool.end() is never
\* called without a pool or before the loop is left, and no statement is
\* sent after it.
C4_PoolCreatedOnceClosedAlways ==
  handler = "execute" =>
    /\ poolsCreated <= 1
    /\ poolEnds <= poolsCreated
    /\ pc = "done" => poolEnds = poolsCreated
    /\ pc \in {"loop", "primary", "followUp", "finally"} =>
         poolsCreated = 1 /\ poolEnds = 0
    /\ \A i \in 1..Len(sent) : ~sent[i].afterEnd

\* C4 witness: execute has ended by raising the error of an item, after
\* sending a statement, with its pool closed.
C4_Witness ==
  /\ ExecuteDone
  /\ outcome.kind = "raise"
  /\ thrown # NoError
  /\ Len(sent) > 0
  /\ poolsCreated = 1
  /\ poolEnds = 1

\* An update or delete whose where clause is empty.
EmptyWhereWrite ==
  /\ handler = "execute"
  /\ params.operation \in {"update", "delete"}
  /\ ~Truthy(params.where)

\* C5: an update or delete with an empty where clause sends nothing to the
\* driver, and every item processed fails with the error that a WHERE
\* clause is required.
C5_EmptyWhereFailsBeforeSending ==
  EmptyWhereWrite =>
    /\ sent = <<>>
    /\ pc \notin {"primary", "followUp"}
    /\ FailedItems = 1..Len(caught)
    /\ pc = "loop" => Len(caught) = idx - 1
    /\ pc \in {"finally", "done"} /\ poolsCreated > 0 =>
         Len(caught) = (IF continueOnFail THEN ExpectedCount ELSE 1)
    /\ \A i \in 1..Len(caught) :
         caught[i].error =
           IF params.operation = "update" THEN ErrWhereUpdate ELSE ErrWhereDelete
    /\ \A k \in 1..Len(results) :
         <<"errorMessage", StrVal(caught[k].error.message)>> \in results[k]

\* C5 witness: a delete with an empty where clause has failed for both
\* items of a batch.
C5_Witness ==
  /\ EmptyWhereWrite
  /\ params.operation = "delete"
  /\ ExecuteDone
  /\ Len(caught) >= 2

\* ---- statements
BuilderOperations == {"select", "insert", "update", "delete"}

Range(seq) == {seq[i] : i \in 1..Len(seq)}

\* Token i of a text stands between two back-ticks.
Wrapped(text, i) ==
  /\ i > 1
  /\ i < Len(text)
  /\ text[i - 1] = BackTick
  /\ text[i + 1] = BackTick

CountToken(text, t) == Cardinality({i \in 1..Len(text) : text[i] = t})

\* The names a text field lists (its tokens but separators and *).
Names(field) == Range(field) \ {",", " ", "*"}

DataPairs == JSONParse(params.data).pairs

DataKeys == Range(ObjectKeys(DataPairs))

\* Every table and column name the parameters give.
IdentifierTokens ==
  Names(params.table) \cup Names(params.columns) \cup Names(params.returnFields)
  \cup DataKeys

\* The values the parameters give: of the data object and of the where
\* parameters; and the texts of the ids an insert can generate.
DataValueParams == Range(ObjectValues(DataPairs))

\* (an empty piece between two commas is the empty text)
WhereValueTexts == Names(params.whereParams) \cup {""}

InsertIdTexts == {ToString(r.insertId) : r \in HeaderResults}

ValueTexts ==
  {v.text : v \in DataValueParams} \cup WhereValueTexts \cup InsertIdTexts

BuiltStatements ==
  IF handler = "execute" /\ params.operation \in BuilderOperations
  THEN Range(sent) ELSE {}

\* C6 as stated: in every statement built for select, insert, update and
\* delete, every table and column name stands between back-ticks, no value
\* stands in the text, and every parameter is one of the values.
C6_Original ==
  LET identifiers == IdentifierTokens
      values == ValueTexts
  IN  \A s \in BuiltStatements :
        /\ \A i \in 1..Len(s.text) :
             /\ s.text[i] \in identifiers => Wrapped(s.text, i)
             /\ s.text[i] \notin values
        /\ \A v \in Range(s.params) : v.text \in values

\* C6 amended: the table name (in every built statement) and the column
\* names taken from the keys of the data object (in an INSERT or UPDATE)
\* stand between back-ticks; the column list of a select and the return
\* fields are written as given.  No value of the data object, no where
\* parameter and no generated id stands in a statement text: the
\* parameters of an INSERT are the data values, with one ? each, those of
\* an UPDATE the data values and then the where parameters, those of a
\* follow-up of an insert the generated id, and those of every other
\* statement the where parameters.
C6_ValuesBoundTableAndDataKeysQuoted ==
  LET op == params.operation
      tables == Names(params.table)
      keys == DataKeys
      values == ValueTexts
      dataValues == DataValueParams
      whereTexts == WhereValueTexts
      n == Len(DataPairs)
  IN  \A s \in BuiltStatements :
        /\ \A i \in 1..Len(s.text) :
             /\ s.text[i] \in tables => Wrapped(s.text, i)
             /\ (s.role = "primary" /\ op \in {"insert", "update"}
                  /\ s.text[i] \in keys) => Wrapped(s.text, i)
             /\ s.text[i] \notin values
        /\ \A v \in Range(s.params) : v.text \in values
        /\ (s.role = "primary" /\ op = "insert") =>
             /\ Range(s.params) = dataValues
             /\ CountToken(s.text, "?") = n
             /\ Len(s.params) = n
        /\ (s.role = "primary" /\ op = "update") =>
             /\ \A j \in 1..n : s.params[j] \in dataValues
             /\ Len(s.params) >= n
             /\ CountToken(s.text, "?") = n + CountToken(params.where, "?")
             /\ \A j \in n + 1..Len(s.params) : s.params[j].text \in whereTexts
        /\ (s.role = "followUp" /\ op = "insert") =>
             /\ Len(s.params) = 1
             /\ s.params[1].text \in InsertIdTexts
        /\ (op \in {"select", "delete"} \/ (s.role = "followUp" /\ op = "update")) =>
             \A v \in Range(s.params) : v.text \in whereTexts

\* C6 witness: an INSERT of two values has been sent with two parameters,
\* and its follow-up SELECT.
C6_Witness ==
  /\ handler = "execute"
  /\ params.operation = "insert"
  /\ \E s \in Range(sent) : s.role = "primary" /\ Len(s.params) = 2
  /\ \E s \in Range(sent) : s.role = "followUp"

\* ---- errors
KnownOperations == {"executeQuery"} \cup BuilderOperations

\* A required field of the credentials is absent.
RequiredFieldMissing(c) ==
  \/ c.available # "ok"
  \/ c.host = ""
  \/ c.database = ""
  \/ c.user = ""
  \/ c.password = ""

\* C7 as stated: when the credentials cannot be resolved or the operation
\* is unknown, execute ends by raising, whatever continue-on-fail is, and
\* no item gets an error record.
C7_SetupErrorsAbort ==
  (ExecuteDone /\ (credentials.available # "ok" \/ credentials.host = ""
                   \/ params.operation \notin KnownOperations)) =>
    /\ outcome.kind = "raise"
    /\ \A k \in 1..Len(results) : <<"error", True>> \notin results[k]

\* C8 as stated: when host, database, user or password is absent from the
\* credentials, execute raises the configuration error, creates no pool
\* and sends nothing.
C8_MissingFieldFailsResolution ==
  (handler = "execute" /\ RequiredFieldMissing(credentials)) =>
    /\ poolsCreated = 0
    /\ sent = <<>>
    /\ pc = "done" => /\ outcome.kind = "raise"
                      /\ outcome.error \in
                           {ErrFailedCredentials(ErrCredentialsRequired),
                            ErrFailedCredentials(ErrNoCredentials)}

\* C9 as stated: the error of a failed operation is what the caller gets
\* (what the tester classifies), also when the teardown after it fails.
C9_TeardownNeverMasks ==
  /\ (ExecuteDone /\ thrown # NoError) => outcome = Raised(thrown)
  /\ (handler = "test" /\ pc = "done" /\ thrown \in QueryErrors) =>
       outcome = Returned(TestResult(FALSE, Classify(thrown, credentials)))
  /\ (handler = "getTables" /\ pc = "done" /\ thrown \in QueryErrors) =>
       outcome.kind = "return"

\* C10: the tester opens at most one connection; when it has ended and a
\* connection was opened (the query gave rows, gave none, or failed),
\* connection.end() has been called; and when a required field is missing
\* it ends at once with the failure result, no connection opened, nothing
\* sent and no connection ended.
C10_TesterReleasesConnection ==
  handler = "test" =>
    /\ connsOpened <= 1
    /\ connEnds > 0 => connsOpened = 1
    /\ pc = "done" => outcome.kind = "return"
    /\ (pc = "done" /\ connsOpened = 1) => connEnds >= 1
    /\ RequiredFieldMissing(credentials) =>
         /\ connsOpened = 0
         /\ connEnds = 0
         /\ sent = <<>>
         /\ pc \in {"start", "done"}
         /\ pc = "done" => ~outcome.value.success

\* C10 witness: the tester has ended after its liveness query failed on an
\* open connection, which it has ended.
C10_Witness ==
  /\ handler = "test"
  /\ pc = "done"
  /\ connsOpened = 1
  /\ thrown \in QueryErrors
  /\ connEnds >= 1

\* The table lister has ended.
TablesDone == handler = "getTables" /\ pc = "done"

\* The lister met one of its failures: no credentials or a failed
\* resolution, a failed connection (none was opened), or an error thrown by
\* the catalog query or by the ending of the connection.
TablesFailed == connsOpened = 0 \/ thrown # NoError

\* C11 as stated: the table lister never raises; when the credentials are
\* missing or their resolution fails, the connection fails, the catalog
\* query fails or the ending of the connection fails, it returns a list of
\* exactly one synthetic option whose value is empty.
C11_TableListerNeverFails ==
  TablesDone =>
    /\ outcome.kind = "return"
    /\ TablesFailed =>
         /\ Len(outcome.value) = 1
         /\ outcome.value[1].value = ""

\* A statement of the sent log has settled, to a result or to a rejection.
Settled(s) == Len(s.settled) = 1

Succeeded(s) == Settled(s) /\ s.settled[1].ok

Failed(s) == Settled(s) /\ ~s.settled[1].ok

\* The positions in the sent log of the follow-up SELECTs that failed.
FailedFollowUps ==
  {i \in 1..Len(sent) : sent[i].role = "followUp" /\ Failed(sent[i])}

\* The warnings logged.
Warnings == SelectSeq(logs, LAMBDA l : l.level = "warn")

\* The fields a record carries for the write w of an insert or update whose
\* follow-up fetch gave nothing.
CarriesWriteResult(record, w) ==
  IF params.operation = "insert"
  THEN /\ <<"inserted", Obj({<<"insertId", NumVal(w.insertId)>>,
                             <<"affectedRows", NumVal(w.affectedRows)>>})>>
            \in record
       /\ <<"rowCount", NumVal(w.affectedRows)>> \in record
  ELSE /\ <<"updated", Arr(<<>>)>> \in record
       /\ <<"rowCount", NumVal(w.affectedRows)>> \in record
       /\ <<"changedRows", NumVal(w.changedRows)>> \in record

\* C12: when the follow-up SELECT after a successful insert or update
\* fails, whatever the continue-on-fail setting, the item is not handed to
\* the per-item catch and aborts nothing: its record is pushed in its
\* place and the loop goes on to the next item (the batch ends early only
\* with the error of another item); the record is the item's fields with
\* the result of the write (inserted = {insertId, affectedRows} and
\* rowCount for an insert; updated = [], rowCount and changedRows for an
\* update) and no error field added; one warning is logged per failed
\* follow-up; and when execute returns, that record is in the returned list.
C12_FollowUpFailureIsNotFatal ==
  handler = "execute" =>
    /\ Len(Warnings) = Cardinality(FailedFollowUps)
    /\ \A j \in 1..Len(Warnings) :
         Warnings[j].message = FetchWarning(params.operation)
    /\ \A i \in FailedFollowUps :
         LET k == sent[i].item
             item == ItemsToProcess(items)[k]
         IN  /\ params.operation \in {"insert", "update"}
             /\ i > 1
             /\ sent[i - 1].item = k
             /\ sent[i - 1].role = "primary"
             /\ Succeeded(sent[i - 1])
             /\ k \notin FailedItems
             /\ Len(results) >= k
             /\ CarriesWriteResult(results[k], sent[i - 1].settled[1])
             /\ Keys(results[k]) \cap ErrorKeys = Keys(item) \cap ErrorKeys
             /\ OwnFields(results[k]) = OwnFields(item)
             /\ idx > k
             /\ (pc \in {"finally", "done"} /\ thrown = NoError) =>
                  Len(results) = ExpectedCount
             /\ ExecuteReturned => outcome.value[k] = results[k]

\* C12 witness: without continue-on-fail, execute has returned the records
\* of a batch of two updates whose first follow-up SELECT failed.
C12_Witness ==
  /\ ExecuteReturned
  /\ ~continueOnFail
  /\ params.operation = "update"
  /\ Len(items) = 2
  /\ \E i \in FailedFollowUps : sent[i].item = 1
  /\ Len(outcome.value) = 2

\* The positions of token t in a text.
Positions(text, t) == {i \in 1..Len(text) : text[i] = t}

\* The clause keywords of a text stand in the order WHERE, ORDER BY, LIMIT,
\* each at most once.
ClausesInOrder(text) ==
  /\ Cardinality(Positions(text, " WHERE ")) <= 1
  /\ Cardinality(Positions(text, " ORDER BY ")) <= 1
  /\ Cardinality(Positions(text, " LIMIT ")) <= 1
  /\ \A w \in Positions(text, " WHERE "), o \in Positions(text, " ORDER BY ") :
       w < o
  /\ \A w \in Positions(text, " WHERE "), l \in Positions(text, " LIMIT ") :
       w < l
  /\ \A o \in Positions(text, " ORDER BY "), l \in Positions(text, " LIMIT ") :
       o < l

\* A text ends with LIMIT n.
EndsWithLimit(text, n) ==
  /\ Len(text) >= 2
  /\ text[Len(text) - 1] = " LIMIT "
  /\ text[Len(text)] = ToString(n)

\* C13 as stated: the statement of a select has no LIMIT clause when
\* returnAll is true, ends with LIMIT <limit> for the configured limit when
\* returnAll is false, and has its WHERE, ORDER BY and LIMIT clauses in
\* that order.
C13_LimitFollowsReturnAll ==
  (handler = "execute" /\ params.operation = "select") =>
    \A i \in 1..Len(sent) :
      /\ params.returnAll => Positions(sent[i].text, " LIMIT ") = {}
      /\ ~params.returnAll => EndsWithLimit(sent[i].text, params.limit)
      /\ ClausesInOrder(sent[i].text)

\* A string-typed positional parameter.
StringEntry(text) == [type |-> "string", text |-> text]

\* The list each parameter field is to give, written out: one string per
\* comma-separated token, trimmed, in order; none for the empty field.
ExpectedParams(field) ==
  CASE field = <<>> -> <<>>
    [] field = <<"123", ",", " ", "active">> ->
         <<StringEntry("123"), StringEntry("active")>>
    [] field = <<" ", "42", " ", ",", ",", "x", ",">> ->
         <<StringEntry("42"), StringEntry(""), StringEntry("x"),
           StringEntry("")>>

\* The values of each data object in column order, written out.
ExpectedValues(data) ==
  IF Len(data) > 2
  THEN <<StringEntry("John"), [type |-> "number", text |-> "30"]>>
  ELSE <<>>

\* The parameter list the claim gives statement i of the sent log; a select
\* is given its where parameters whether or not it has a where clause.
StatedParams(i) ==
  CASE params.operation = "executeQuery" -> ExpectedParams(params.queryParams)
    [] params.operation = "update" /\ sent[i].role = "primary" ->
         ExpectedValues(params.data) \o ExpectedParams(params.whereParams)
    [] OTHER -> ExpectedParams(params.whereParams)

\* The statements of the sent log whose parameters come from a "...Params"
\* field.
MarshaledStatements ==
  {i \in 1..Len(sent) :
     /\ handler = "execute"
     /\ params.operation \in {"executeQuery", "select", "update", "delete"}}

\* C14 as stated: every statement is handed the list its "...Params" field
\* marshals to (for an update, after the data values in column order; for
\* its follow-up SELECT, the where parameters again).
C14_Original ==
  \A i \in MarshaledStatements : sent[i].params = StatedParams(i)

\* C14: every statement is handed the list its "...Params" field marshals
\* to: one string-typed entry per comma-separated token, trimmed, in order,
\* and no entry for an empty field; for an update, after the data values in
\* column order, and for its follow-up SELECT the where parameters again.
\* The whereParams of a select are marshaled only when it has a where
\* clause: without one the statement is handed no parameter.
C14_ParamsSplitAndTrimmed ==
  \A i \in MarshaledStatements :
    sent[i].params =
      IF params.operation = "select" /\ ~Truthy(params.where) THEN <<>>
      ELSE StatedParams(i)

\* C14 witness: the follow-up SELECT of an update with whereParams
\* " 42 ,,x," has been sent, after the UPDATE with the two data values.
C14_Witness ==
  /\ handler = "execute"
  /\ params.operation = "update"
  /\ params.whereParams = <<" ", "42", " ", ",", ",", "x", ",">>
  /\ Len(sent) >= 2
  /\ sent[2].role = "followUp"
  /\ Len(sent[1].params) = 6
  /\ Len(sent[2].params) = 4

\* C15: the statements of a batch are handed to the driver one at a time
\* and in the order of the input items: every statement but the last sent
\* has settled (the last is pending exactly while execute awaits it); the
\* items of the statements do not go down; each item has one primary
\* statement, and a follow-up SELECT comes directly after the primary
\* statement of its own item, once that has succeeded; a statement of item
\* k is sent only when the items before k have their records, and the
\* record of item k is pushed only when the statements of item k have
\* settled; the k-th record pushed belongs to the k-th item.
C15_ItemsProcessedSequentially ==
  handler = "execute" =>
    /\ \A i \in 1..Len(sent) :
         /\ i < Len(sent) => Settled(sent[i])
         /\ sent[i].item \in 1..Len(ItemsToProcess(items))
         /\ sent[i].item = idx \/ (sent[i].item < idx /\ Settled(sent[i]))
         /\ i > 1 => sent[i - 1].item <= sent[i].item
         /\ sent[i].role = "primary" =>
              (i > 1 => sent[i - 1].item < sent[i].item)
         /\ sent[i].role = "followUp" =>
              /\ i > 1
              /\ sent[i - 1].item = sent[i].item
              /\ sent[i - 1].role = "primary"
              /\ Succeeded(sent[i - 1])
         /\ Len(results) >= sent[i].item - 1
         /\ Len(results) >= sent[i].item => Settled(sent[i])
    /\ Len(sent) > 0 =>
         (Settled(sent[Len(sent)]) <=> pc \notin {"primary", "followUp"})
    /\ pc \in {"primary", "followUp"} => sent[Len(sent)].item = idx
    /\ \A k \in 1..Len(results) :
         OwnFields(results[k]) = OwnFields(ItemsToProcess(items)[k])

\* C15 witness: execute has returned the two records of a batch of two
\* different items, each an insert with its follow-up SELECT: four
\* statements, all settled.
C15_Witness ==
  /\ ExecuteReturned
  /\ params.operation = "insert"
  /\ Len(items) = 2
  /\ items[1] # items[2]
  /\ Len(sent) = 4
  /\ <<sent[1].item, sent[2].item, sent[3].item, sent[4].item>> = <<1, 1, 2, 2>>
  /\ \A i \in 1..4 : Settled(sent[i])
  /\ Len(outcome.value) = 2

\* C16 as stated: in the credential tester and the table lister,
\* connection.end() is called at most once on the connection opened, and
\* exactly once when the handler has ended with a connection opened.
C16_ConnectionEndedExactlyOnce ==
  handler \in {"test", "getTables"} =>
    /\ connEnds <= connsOpened
    /\ pc = "done" => connEnds = connsOpened

====
